---------------------------- MODULE Spec2Model ----------------------------
(***************************************************************************)
(* Fama-French 3-factor playground (src/FamaFrench3Factors.py).            *)
(*                                                                         *)
(* Numbers.  The program computes in floating point; the model computes    *)
(* exactly, in fixed point and in rationals:                               *)
(*   alpha, risk_free, noise, returns : thousandths  (0.005 is 5)          *)
(*   market_beta, smb_beta, hml_beta  : tenths       (1.2 is 12)           *)
(*   factor values                    : hundredths   (0.04 is 4)           *)
(* so that alpha + beta * factor is a sum of thousandths.  Regression      *)
(* coefficients are rationals <<numerator, denominator>> in lowest terms,  *)
(* in the unit of the parameter they estimate.                             *)
(*                                                                         *)
(* Randomness.  numpy's process-wide generator is a deterministic stream   *)
(* selected by a seed; its state is the seed and the number of standard    *)
(* normal draws consumed since seeding.  A standard normal draw is         *)
(* quantised to -1, 0 or 1.                                                *)
(***************************************************************************)
EXTENDS Integers, Sequences, FiniteSets, TLC

VARIABLES
    session,        \* st.session_state: the six slider keys
    lab,            \* the st.radio of tab 4 (which lab button is rendered)
    event,          \* the user's last action on the page
    moves,          \* slider moves since the last preset (bounds the model)
    pc,             \* position of the script, or of the calling harness
    rng,            \* np.random global state: [seed, pos]
    months_arg,     \* argument of the latest generate_ff_data call
    factors,        \* DataFrame of factors: sequence of [MktRF, SMB, HML]
    params,         \* the params dict handed to fama_french_model
    stock_returns,  \* the simulated return Series
    model,          \* the fitted regression results
    err,            \* exception raised by the latest call ("none" if none)
    trace,          \* components executed so far in the current script run
    last,           \* the previous script run: its params and returns
    gen_log,        \* months -> what an earlier generate_ff_data(months) returned
    again           \* the latest generate_ff_data call repeated a logged months
                    \* right after a draw from the shared generator

vars == <<session, lab, event, moves, pc, rng, months_arg, factors, params,
          stock_returns, model, err, trace, last, gen_log, again>>

-----------------------------------------------------------------------------
(* Bounds of the model *)

\* generate_ff_data() is called with its default months=60 (line 64, 159);
\* the model runs the same pipeline on a shorter history.
DefaultMonths == 4

\* largest period count the harness passes to generate_ff_data
MaxMonths == 5

\* longest factor series the harness builds by hand
MaxObs == 4

\* most standard-normal draws followed since the last seeding
MaxPos == 20

\* most slider moves between two presets
MaxSliderMoves == 1

-----------------------------------------------------------------------------
(* Arithmetic helpers *)

Abs(x) == IF x < 0 THEN -x ELSE x

RECURSIVE GCD(_, _)
GCD(a, b) == IF b = 0 THEN Abs(a) ELSE GCD(b, a % b)

\* the rational n/d in lowest terms with a positive denominator (d # 0)
Rat(n, d) ==
    LET g == GCD(Abs(n), Abs(d))
        s == IF d < 0 THEN -1 ELSE 1
    IN  <<s * (n \div g), s * (d \div g)>>

RatInt(n) == <<n, 1>>
RatAdd(p, q) == Rat(p[1] * q[2] + q[1] * p[2], p[2] * q[2])
RatSub(p, q) == Rat(p[1] * q[2] - q[1] * p[2], p[2] * q[2])
RatMul(p, q) ==
    LET a == Rat(p[1], q[2])
        b == Rat(q[1], p[2])
    IN  <<a[1] * b[1], a[2] * b[2]>>
RatDiv(p, q) == RatMul(p, Rat(q[2], q[1]))

RECURSIVE Sum(_)
Sum(s) == IF Len(s) = 0 THEN 0 ELSE Head(s) + Sum(Tail(s))

RECURSIVE RatSum(_)
RatSum(s) == IF Len(s) = 0 THEN RatInt(0) ELSE RatAdd(Head(s), RatSum(Tail(s)))

Dot(u, v) == Sum([i \in 1..Len(u) |-> u[i] * v[i]])

\* the elements of a set of integers, ascending
RECURSIVE SortedSeq(_)
SortedSeq(S) ==
    IF S = {} THEN <<>>
    ELSE LET m == CHOOSE x \in S : \A y \in S : x <= y
         IN  <<m>> \o SortedSeq(S \ {m})

Drop(s, j) == SubSeq(s, 1, j - 1) \o SubSeq(s, j + 1, Len(s))

\* determinant of the submatrix of M on rows R and columns C (index sequences
\* of equal length), by expansion along the first row
RECURSIVE Det(_, _, _)
Det(M, R, C) ==
    CASE Len(R) = 0 -> 1
      [] Len(R) = 1 -> M[R[1]][C[1]]
      [] Len(R) = 2 -> M[R[1]][C[1]] * M[R[2]][C[2]] - M[R[1]][C[2]] * M[R[2]][C[1]]
      [] OTHER ->
            Sum([j \in 1..Len(C) |->
                   IF M[R[1]][C[j]] = 0 THEN 0
                   ELSE (IF j % 2 = 1 THEN 1 ELSE -1) * M[R[1]][C[j]]
                        * Det(M, Tail(R), Drop(C, j))])

\* sum of the determinants of the principal submatrices of M on the index sets Ts
RECURSIVE MinorSumOver(_, _)
MinorSumOver(M, Ts) ==
    IF Ts = {} THEN 0
    ELSE LET T == CHOOSE U \in Ts : TRUE
             s == SortedSeq(T)
         IN  Det(M, s, s) + MinorSumOver(M, Ts \ {T})

\* sum of the principal minors of M (k x k) on the index sets of size r that
\* contain every element of Must
MinorSum(M, k, r, Must) ==
    MinorSumOver(M, {T \in SUBSET (1..k) : Cardinality(T) = r /\ Must \subseteq T})

-----------------------------------------------------------------------------
(* numpy's global random generator *)

\* seed numpy draws when the process starts without np.random.seed (OS entropy)
EntropySeeds == {7, 1234}

\* np.random.seed(s): restart the stream selected by s
seed(s) == [seed |-> s, pos |-> 0]

\* the p-th standard normal draw of the stream selected by s, quantised
Gauss(s, p) == (((s + p * p + s * p) % 11) % 3) - 1

\* np.random.normal(loc, scale, size) on generator state g, size >= 0:
\* loc + scale * (the next size standard draws), and the state afterwards
normal(g, loc, scale, size) ==
    [values |-> [i \in 1..size |-> loc + scale * Gauss(g.seed, g.pos + i - 1)],
     rng    |-> [g EXCEPT !.pos = @ + size]]

-----------------------------------------------------------------------------
(* Core model: lines 64-100 *)

\* 0.05/12, 0.03/12, 0.04/12 and 0.15/sqrt(12), 0.10/sqrt(12), 0.12/sqrt(12),
\* rounded to hundredths
MktLoc == 0
MktScale == 4
SmbLoc == 0
SmbScale == 3
HmlLoc == 0
HmlScale == 3

NoFactors == <<>>

\* mutants of generate_ff_data
\* - the seed call is missing: the draws continue the stream the caller left
generate_ff_data_unseeded(months, g) ==
    IF months < 0
    THEN [err |-> "ValueError", factors |-> NoFactors, rng |-> g]
    ELSE LET m == normal(g, MktLoc, MktScale, months)
             s == normal(m.rng, SmbLoc, SmbScale, months)
             h == normal(s.rng, HmlLoc, HmlScale, months)
         IN  [err     |-> "none",
              factors |-> [i \in 1..months |->
                             [MktRF |-> m.values[i],
                              SMB   |-> s.values[i],
                              HML   |-> h.values[i]]],
              rng     |-> h.rng]

\* - a private RandomState(42) draws the factors: the global generator is untouched
generate_ff_data_private(months, g) ==
    LET g0 == seed(42)
    IN  IF months < 0
        THEN [err |-> "ValueError", factors |-> NoFactors, rng |-> g]
        ELSE LET m == normal(g0, MktLoc, MktScale, months)
                 s == normal(m.rng, SmbLoc, SmbScale, months)
                 h == normal(s.rng, HmlLoc, HmlScale, months)
             IN  [err     |-> "none",
                  factors |-> [i \in 1..months |->
                                 [MktRF |-> m.values[i],
                                  SMB   |-> s.values[i],
                                  HML   |-> h.values[i]]],
                  rng     |-> g]

\* - the period count is validated: months <= 0 is rejected
generate_ff_data_validating(months, g) ==
    LET g0 == seed(42)
    IN  IF months <= 0
        THEN [err |-> "ValueError", factors |-> NoFactors, rng |-> g0]
        ELSE LET m == normal(g0, MktLoc, MktScale, months)
                 s == normal(m.rng, SmbLoc, SmbScale, months)
                 h == normal(s.rng, HmlLoc, HmlScale, months)
             IN  [err     |-> "none",
                  factors |-> [i \in 1..months |->
                                 [MktRF |-> m.values[i],
                                  SMB   |-> s.values[i],
                                  HML   |-> h.values[i]]],
                  rng     |-> h.rng]

\* generate_ff_data(months), called with the generator in state g.  A negative
\* months makes pd.date_range / np.random.normal raise ValueError, after the
\* generator has been reseeded.
generate_ff_data(months, g) ==
    LET g0 == seed(42)
    IN  IF months < 0
        THEN [err |-> "ValueError", factors |-> NoFactors, rng |-> g0]
        ELSE LET m == normal(g0, MktLoc, MktScale, months)
                 s == normal(m.rng, SmbLoc, SmbScale, months)
                 h == normal(s.rng, HmlLoc, HmlScale, months)
             IN  [err     |-> "none",
                  factors |-> [i \in 1..months |->
                                 [MktRF |-> m.values[i],
                                  SMB   |-> s.values[i],
                                  HML   |-> h.values[i]]],
                  rng     |-> h.rng]

\* mutant of fama_french_model: loc and scale of the noise draw are swapped
fama_french_model_swapped(p, f, g) ==
    LET n == normal(g, p.noise, 1, Len(f))
    IN  [returns |-> [i \in 1..Len(f) |->
                        p.alpha
                        + p.beta_mkt * f[i].MktRF
                        + p.beta_smb * f[i].SMB
                        + p.beta_hml * f[i].HML
                        + n.values[i]],
         rng     |-> n.rng]

\* fama_french_model(params, factors), called with the generator in state g
fama_french_model(p, f, g) ==
    LET n == normal(g, 0, p.noise, Len(f))
    IN  [returns |-> [i \in 1..Len(f) |->
                        p.alpha
                        + p.beta_mkt * f[i].MktRF
                        + p.beta_smb * f[i].SMB
                        + p.beta_hml * f[i].HML
                        + n.values[i]],
         rng     |-> n.rng]

FactorColumns == <<"Mkt-RF", "SMB", "HML">>

FactorRow(o) == <<o.MktRF, o.SMB, o.HML>>

Column(rows, j) == [i \in 1..Len(rows) |-> rows[i][j]]

\* statsmodels' test for a constant column: no spread, and not all zero
IsNonzeroConst(col) ==
    /\ \A i \in 1..Len(col) : col[i] = col[1]
    /\ \E i \in 1..Len(col) : col[i] # 0

\* sm.add_constant(factors[['Mkt-RF', 'SMB', 'HML']]) with has_constant='skip':
\* a column 'const' of ones is prepended unless a column is already constant
add_constant(f) ==
    LET rows == [i \in 1..Len(f) |-> FactorRow(f[i])]
    IN  IF \E j \in 1..3 : IsNonzeroConst(Column(rows, j))
        THEN [names |-> FactorColumns, rows |-> rows]
        ELSE [names |-> <<"const">> \o FactorColumns,
              rows  |-> [i \in 1..Len(f) |-> <<1>> \o rows[i]]]

\* 0/0: what 1 - ssr/centered_tss gives for a constant dependent variable
NaN == <<0, 0>>

ReplaceCol(A, j, c) ==
    [a \in 1..Len(A) |-> [b \in 1..Len(A) |-> IF b = j THEN c[a] ELSE A[a][b]]]

\* numpy's matrix_rank of X, from A = X'X (k x k, positive semidefinite): the
\* largest r whose principal minors of size r do not all vanish
RECURSIVE RankFrom(_, _, _)
RankFrom(A, k, r) ==
    IF r = 0 \/ MinorSum(A, k, r, {}) # 0 THEN r ELSE RankFrom(A, k, r - 1)

\* sm.OLS(y, X).fit(): least squares by the pseudo-inverse (the default
\* method).  With A = X'X of rank r and c = X'y, pinv(X) y is the limit of
\* (A + t I)^-1 c as t -> 0; by Cramer's rule its j-th entry is the ratio of
\* the lowest-order coefficients of the two determinants, which are sums of
\* principal minors of size r.  No rank test rejects a deficient design.
OLS_fit(y, X) ==
    LET k    == Len(X.names)
        n    == Len(y)
        A    == [a \in 1..k |-> [b \in 1..k |->
                    Dot(Column(X.rows, a), Column(X.rows, b))]]
        c    == [a \in 1..k |-> Dot(Column(X.rows, a), y)]
        rank == RankFrom(A, k, k)
        E    == MinorSum(A, k, rank, {})
        b    == [j \in 1..k |-> Rat(MinorSum(ReplaceCol(A, j, c), k, rank, {j}), E)]
        fit  == [i \in 1..n |->
                    RatSum([j \in 1..k |-> RatMul(RatInt(X.rows[i][j]), b[j])])]
        res  == [i \in 1..n |-> RatSub(RatInt(y[i]), fit[i])]
        ssr  == RatSum([i \in 1..n |-> RatMul(res[i], res[i])])
        tss  == Rat(n * Dot(y, y) - Sum(y) * Sum(y), n)
    IN  [names        |-> X.names,
         params       |-> b,
         fittedvalues |-> fit,
         nobs         |-> n,
         rank         |-> rank,
         df_resid     |-> n - rank,
         ssr          |-> ssr,
         rsquared     |-> IF tss[1] = 0 THEN NaN
                          ELSE RatSub(RatInt(1), RatDiv(ssr, tss))]

\* mutant of run_regression: a design that is not of full column rank is rejected
run_regression_strict(r, f, rf) ==
    LET y   == [i \in 1..Len(r) |-> r[i] - rf]
        X   == add_constant(f)
        fit == OLS_fit(y, X)
    IN  IF fit.rank < Len(X.names) \/ Len(X.names) < 4
        THEN [raised |-> "SingularDesign"]
        ELSE fit

\* run_regression(stock_returns, factors, rf)
run_regression(r, f, rf) ==
    LET y == [i \in 1..Len(r) |-> r[i] - rf]
        X == add_constant(f)
    IN  OLS_fit(y, X)

-----------------------------------------------------------------------------
(* Presentation state: lines 17-56, 120-133, 274-324 *)

Keys == {"market_beta", "smb_beta", "hml_beta", "alpha", "risk_free", "noise"}

\* st.slider(label, min_value, max_value, value, key=...)
Sliders ==
    [market_beta |-> [min |-> -5,  max |-> 20, value |-> 10],
     smb_beta    |-> [min |-> -10, max |-> 10, value |-> 2],
     hml_beta    |-> [min |-> -10, max |-> 10, value |-> -3],
     alpha       |-> [min |-> -20, max |-> 20, value |-> 5],
     risk_free   |-> [min |-> 0,   max |-> 50, value |-> 20],
     noise       |-> [min |-> 0,   max |-> 50, value |-> 20]]

\* the positions of a slider the model lets the user pick: its two ends
SliderPositions(k) == {Sliders[k].min, Sliders[k].max}

\* session_state after the first script run registered the six sliders
InitialSession == [k \in Keys |-> Sliders[k].value]

reset_parameters(ss) ==
    [ss EXCEPT !.market_beta = 10, !.smb_beta = 2, !.hml_beta = -3,
               !.alpha = 5, !.risk_free = 20, !.noise = 20]

set_lab1_parameters(ss) ==
    [ss EXCEPT !.market_beta = 10, !.smb_beta = 0, !.hml_beta = 0,
               !.alpha = 5, !.risk_free = 20, !.noise = 10]

\* mutant of set_lab2_parameters: the risk-free rate is not assigned
set_lab2_parameters_partial(ss) ==
    [ss EXCEPT !.market_beta = 12, !.smb_beta = 10, !.hml_beta = 11,
               !.alpha = -3, !.noise = 30]

set_lab2_parameters(ss) ==
    [ss EXCEPT !.market_beta = 12, !.smb_beta = 10, !.hml_beta = 11,
               !.alpha = -3, !.risk_free = 30, !.noise = 30]

set_lab3_parameters(ss) ==
    [ss EXCEPT !.market_beta = 8, !.smb_beta = -7, !.hml_beta = -12,
               !.alpha = 10, !.risk_free = 10, !.noise = 50]

\* the params dict of lines 160-166
ParamsOf(ss) ==
    [beta_mkt |-> ss.market_beta,
     beta_smb |-> ss.smb_beta,
     beta_hml |-> ss.hml_beta,
     alpha    |-> ss.alpha,
     noise    |-> ss.noise]

\* values of the script's names before their assignment
NoParams == [beta_mkt |-> 0, beta_smb |-> 0, beta_hml |-> 0, alpha |-> 0, noise |-> 0]
NoReturns == <<>>
NoModel == [names |-> <<>>]
NoRun == [valid |-> FALSE, params |-> NoParams, returns |-> NoReturns]

MonthsArgs == -1..MaxMonths
NoLog == [n \in MonthsArgs |-> [called |-> FALSE, factors |-> NoFactors]]

Pipeline == <<"generate_ff_data", "fama_french_model", "run_regression">>

-----------------------------------------------------------------------------
(* The page: one script run per user action *)

Init ==
    /\ session = InitialSession
    /\ lab = 1
    /\ event = "open"
    /\ moves = 0
    /\ pc = "generate"
    /\ rng \in {seed(s) : s \in EntropySeeds}
    /\ months_arg = DefaultMonths
    /\ factors = NoFactors
    /\ params = NoParams
    /\ stock_returns = NoReturns
    /\ model = NoModel
    /\ err = "none"
    /\ trace = <<>>
    /\ last = NoRun
    /\ gen_log = NoLog
    /\ again = FALSE

\* Streamlit reruns the script from the top; the names of the previous run are gone
Rerun ==
    /\ pc = "idle"
    /\ pc' = "generate"
    /\ trace' = <<>>
    /\ last' = [valid |-> TRUE, params |-> params, returns |-> stock_returns]
    /\ factors' = NoFactors
    /\ params' = NoParams
    /\ stock_returns' = NoReturns
    /\ model' = NoModel
    /\ UNCHANGED <<rng, months_arg, err, gen_log, again>>

\* the user drags one slider to another position (lines 126-133)
SliderChange ==
    \E k \in Keys : \E v \in SliderPositions(k) :
        /\ moves < MaxSliderMoves
        /\ v # session[k]
        /\ session' = [session EXCEPT ![k] = v]
        /\ event' = "slider"
        /\ moves' = moves + 1
        /\ Rerun
        /\ UNCHANGED lab

\* st.button("Reset Defaults", on_click=reset_parameters) (line 123)
ResetDefaults ==
    /\ session' = reset_parameters(session)
    /\ event' = "reset"
    /\ moves' = 0
    /\ Rerun
    /\ UNCHANGED lab

\* the button of the lab the radio shows (lines 293, 308, 324)
SetLab1 ==
    /\ lab = 1
    /\ session' = set_lab1_parameters(session)
    /\ event' = "lab1"
    /\ moves' = 0
    /\ Rerun
    /\ UNCHANGED lab

SetLab2 ==
    /\ lab = 2
    /\ session' = set_lab2_parameters(session)
    /\ event' = "lab2"
    /\ moves' = 0
    /\ Rerun
    /\ UNCHANGED lab

SetLab3 ==
    /\ lab = 3
    /\ session' = set_lab3_parameters(session)
    /\ event' = "lab3"
    /\ moves' = 0
    /\ Rerun
    /\ UNCHANGED lab

\* st.radio("Choose an Empirical Lab:") (line 274): a rerun with the same parameters
ChooseLab ==
    \E l \in 1..3 :
        /\ l # lab
        /\ lab' = l
        /\ event' = "radio"
        /\ Rerun
        /\ UNCHANGED <<session, moves>>

\* line 159: factors = generate_ff_data()
GenerateFactors ==
    /\ pc = "generate"
    /\ LET r == generate_ff_data(months_arg, rng)
       IN  /\ factors' = r.factors
           /\ rng' = r.rng
           /\ err' = r.err
    /\ trace' = Append(trace, "generate_ff_data")
    /\ pc' = "simulate"
    /\ UNCHANGED <<session, lab, event, moves, months_arg, params, stock_returns,
                   model, last, gen_log, again>>

\* lines 160-167: params = {...}; stock_returns = fama_french_model(params, factors)
SimulateReturns ==
    /\ pc = "simulate"
    /\ params' = ParamsOf(session)
    /\ LET r == fama_french_model(params', factors, rng)
       IN  /\ stock_returns' = r.returns
           /\ rng' = r.rng
    /\ trace' = Append(trace, "fama_french_model")
    /\ pc' = "regress"
    /\ UNCHANGED <<session, lab, event, moves, months_arg, factors, model, err,
                   last, gen_log, again>>

\* mutant of RunRegression: the regression is given no risk-free rate
RunRegression_no_rf ==
    /\ pc = "regress"
    /\ model' = run_regression(stock_returns, factors, 0)
    /\ trace' = Append(trace, "run_regression")
    /\ pc' = "idle"
    /\ UNCHANGED <<session, lab, event, moves, rng, months_arg, factors, params,
                   stock_returns, err, last, gen_log, again>>

\* line 168: model = run_regression(stock_returns, factors, session_state["risk_free"]);
\* the rest of the script only renders
RunRegression ==
    /\ pc = "regress"
    /\ model' = run_regression(stock_returns, factors, session.risk_free)
    /\ trace' = Append(trace, "run_regression")
    /\ pc' = "idle"
    /\ UNCHANGED <<session, lab, event, moves, rng, months_arg, factors, params,
                   stock_returns, err, last, gen_log, again>>

Next ==
    \/ SliderChange
    \/ ResetDefaults
    \/ SetLab1
    \/ SetLab2
    \/ SetLab3
    \/ ChooseLab
    \/ GenerateFactors
    \/ SimulateReturns
    \/ RunRegression

Spec == Init /\ [][Next]_vars

-----------------------------------------------------------------------------
(* generate_ff_data called directly, with any period count, between other   *)
(* uses of the shared generator and changes of the presets                  *)

InitGen ==
    /\ session = InitialSession
    /\ lab = 1
    /\ event = "open"
    /\ moves = 0
    /\ pc = "harness"
    /\ rng \in {seed(s) : s \in EntropySeeds}
    /\ months_arg = 0
    /\ factors = NoFactors
    /\ params = NoParams
    /\ stock_returns = NoReturns
    /\ model = NoModel
    /\ err = "none"
    /\ trace = <<>>
    /\ last = NoRun
    /\ gen_log = NoLog
    /\ again = FALSE

\* factors = generate_ff_data(n); a raised exception leaves factors unassigned
GenCall ==
    \E n \in MonthsArgs :
        LET r == generate_ff_data(n, rng)
        IN  /\ months_arg' = n
            /\ err' = r.err
            /\ rng' = r.rng
            /\ factors' = IF r.err = "none" THEN r.factors ELSE factors
            /\ again' = (gen_log[n].called /\ pc = "drawn")
            /\ gen_log' = IF r.err = "none" /\ ~gen_log[n].called
                          THEN [gen_log EXCEPT ![n] = [called |-> TRUE, factors |-> r.factors]]
                          ELSE gen_log
            /\ pc' = "generated"
            /\ UNCHANGED <<session, lab, event, moves, params, stock_returns,
                           model, trace, last>>

\* np.random.normal(0, noise, k) somewhere else in the process, as line 90 does
NoiseDraw ==
    \E k \in 1..2 :
        /\ rng.pos + k <= MaxPos
        /\ rng' = normal(rng, 0, session.noise, k).rng
        /\ pc' = "drawn"
        /\ UNCHANGED <<session, lab, event, moves, months_arg, factors, params,
                       stock_returns, model, err, trace, last, gen_log, again>>

\* a preset callback runs between two calls
ApplyPreset ==
    \E e \in {"reset", "lab1", "lab2", "lab3"} :
        /\ e # event
        /\ event' = e
        /\ session' = CASE e = "reset" -> reset_parameters(session)
                        [] e = "lab1"  -> set_lab1_parameters(session)
                        [] e = "lab2"  -> set_lab2_parameters(session)
                        [] e = "lab3"  -> set_lab3_parameters(session)
        /\ UNCHANGED <<lab, moves, pc, rng, months_arg, factors, params,
                       stock_returns, model, err, trace, last, gen_log, again>>

NextGen ==
    \/ GenCall
    \/ NoiseDraw
    \/ ApplyPreset

SpecGen == InitGen /\ [][NextGen]_vars

-----------------------------------------------------------------------------
(* fama_french_model and run_regression called directly on a ParameterSet,  *)
(* a risk-free rate and a factor series built by the caller                 *)

\* observations the caller builds factor series from (hundredths)
SortedRows ==
    <<[MktRF |-> 0,  SMB |-> 0,  HML |-> 0],
      [MktRF |-> 4,  SMB |-> 3,  HML |-> 0],
      [MktRF |-> -4, SMB |-> 0,  HML |-> 3],
      [MktRF |-> 0,  SMB |-> -3, HML |-> 3]>>

\* the series of 1..MaxObs observations, up to the order of the observations
FactorInputs ==
    LET Rows == SortedRows
        Idx  == UNION {[1..n -> 1..Len(Rows)] : n \in 1..MaxObs}
    IN  {[i \in 1..Len(ix) |-> Rows[ix[i]]] :
            ix \in {jx \in Idx : \A i \in 1..(Len(jx) - 1) : jx[i] <= jx[i + 1]}}

\* parameter states the caller passes: with and without loadings, noise and
\* risk-free rate
SessionInputs ==
    {[InitialSession EXCEPT !.market_beta = b[1], !.smb_beta = b[2], !.hml_beta = b[3],
                            !.risk_free = rf, !.noise = nz] :
        b \in {<<10, 2, -3>>, <<0, 0, 0>>}, rf \in {0, 20}, nz \in {0, 20}}

RngInputs == {seed(7), [seed |-> 42, pos |-> 3]}

InitEst ==
    /\ session = InitialSession
    /\ lab = 1
    /\ event = "open"
    /\ moves = 0
    /\ pc = "est_setup"
    /\ rng \in RngInputs
    /\ months_arg = 0
    /\ factors = NoFactors
    /\ params = NoParams
    /\ stock_returns = NoReturns
    /\ model = NoModel
    /\ err = "none"
    /\ trace = <<>>
    /\ last = NoRun
    /\ gen_log = NoLog
    /\ again = FALSE

\* the caller chooses its arguments
EstSetup ==
    /\ pc = "est_setup"
    /\ session' \in SessionInputs
    /\ factors' \in FactorInputs
    /\ rng' \in RngInputs
    /\ params' = NoParams
    /\ stock_returns' = NoReturns
    /\ model' = NoModel
    /\ pc' = "est_simulate"
    /\ UNCHANGED <<lab, event, moves, months_arg, err, trace, last, gen_log, again>>

\* stock_returns = fama_french_model(params, factors)
EstSimulate ==
    /\ pc = "est_simulate"
    /\ params' = ParamsOf(session)
    /\ LET r == fama_french_model(params', factors, rng)
       IN  /\ stock_returns' = r.returns
           /\ rng' = r.rng
    /\ pc' = "est_regress"
    /\ UNCHANGED <<session, lab, event, moves, months_arg, factors, model, err,
                   trace, last, gen_log, again>>

\* model = run_regression(stock_returns, factors, rf)
EstRegress ==
    /\ pc = "est_regress"
    /\ LET r == run_regression(stock_returns, factors, session.risk_free)
       IN  /\ err' = IF "raised" \in DOMAIN r THEN r.raised ELSE "none"
           /\ model' = IF "raised" \in DOMAIN r THEN NoModel ELSE r
    /\ pc' = "est_done"
    /\ UNCHANGED <<session, lab, event, moves, rng, months_arg, factors, params,
                   stock_returns, trace, last, gen_log, again>>

\* the caller drops the results and starts over
EstReset ==
    /\ pc = "est_done"
    /\ pc' = "est_setup"
    /\ session' = InitialSession
    /\ factors' = NoFactors
    /\ params' = NoParams
    /\ stock_returns' = NoReturns
    /\ model' = NoModel
    /\ err' = "none"
    /\ UNCHANGED <<lab, event, moves, rng, months_arg, trace, last, gen_log, again>>

NextEst ==
    \/ EstSetup
    \/ EstSimulate
    \/ EstRegress
    \/ EstReset

SpecEst == InitEst /\ [][NextEst]_vars

-----------------------------------------------------------------------------
(* Properties *)

\* the design matrix with its intercept column, whatever add_constant decides
FullDesign(f) == [i \in 1..Len(f) |-> <<1>> \o FactorRow(f[i])]

\* rank of the design matrix with intercept
DesignRank(f) ==
    LET X == FullDesign(f)
        A == [a \in 1..4 |-> [b \in 1..4 |-> Dot(Column(X, a), Column(X, b))]]
    IN  RankFrom(A, 4, 4)

\* the noise-free value of period i
Systematic(p, f, i) ==
    p.alpha + p.beta_mkt * f[i].MktRF + p.beta_smb * f[i].SMB + p.beta_hml * f[i].HML

\* C1: the return simulator returns one value per factor observation, index
\* for index, and with noise = 0 every value is exactly
\* alpha + beta_mkt*market + beta_smb*size + beta_hml*value, whatever the
\* risk-free rate and the state of the random generator.
C1_ReturnsAlignedAndExact ==
    pc \in {"est_regress", "est_done"} =>
        /\ DOMAIN stock_returns = DOMAIN factors
        /\ params.noise = 0 =>
              \A i \in DOMAIN factors :
                  stock_returns[i] = Systematic(params, factors, i)

C1_Witness ==
    /\ pc = "est_done"
    /\ params.noise = 0
    /\ session.risk_free = 20
    /\ Len(factors) = MaxObs
    /\ \E i, j \in DOMAIN stock_returns : stock_returns[i] # stock_returns[j]

\* C2: re-executing the pipeline with an unchanged ParameterSet whose noise is
\* positive gives a simulated return series that differs from the one of the
\* previous run.
C2_RerunDiffers ==
    (/\ pc \in {"regress", "idle"}
     /\ last.valid
     /\ last.params = params
     /\ params.noise > 0)
        => stock_returns # last.returns

\* C3: for N >= 4 generate_ff_data(N) returns exactly N observations of the
\* three fields Mkt-RF, SMB, HML, and the same values as every earlier call
\* with that N, whatever was drawn from the shared generator and whichever
\* preset was applied in between.
C3_Reproducible ==
    (err = "none" /\ months_arg >= 4 /\ gen_log[months_arg].called) =>
        /\ Len(factors) = months_arg
        /\ \A i \in DOMAIN factors : DOMAIN factors[i] = {"MktRF", "SMB", "HML"}
        /\ factors = gen_log[months_arg].factors

C3_Witness ==
    /\ pc = "generated"
    /\ again
    /\ months_arg = MaxMonths
    /\ event = "lab2"
    /\ \E i, j \in DOMAIN factors : factors[i] # factors[j]

\* C4: on returns simulated with noise = 0 over a full-rank design the
\* estimator reports, for any risk-free rate, the input betas as factor
\* coefficients, the input alpha as intercept, and an R-squared of 1 (stated
\* for a simulated series that is not constant, where R-squared is defined).
C4_Recovery ==
    (/\ pc = "est_done"
     /\ params.noise = 0
     /\ DesignRank(factors) = 4
     /\ \E i, j \in DOMAIN stock_returns : stock_returns[i] # stock_returns[j]) =>
        /\ model.names = <<"const">> \o FactorColumns
        /\ model.params = <<RatInt(params.alpha), RatInt(params.beta_mkt),
                            RatInt(params.beta_smb), RatInt(params.beta_hml)>>
        /\ model.rsquared = RatInt(1)

\* the preset table of the specification, in the model's units
PresetTable ==
    [reset |-> [alpha |-> 5,  market_beta |-> 10, smb_beta |-> 2,  hml_beta |-> -3,
                risk_free |-> 20, noise |-> 20],
     lab1  |-> [alpha |-> 5,  market_beta |-> 10, smb_beta |-> 0,  hml_beta |-> 0,
                risk_free |-> 20, noise |-> 10],
     lab2  |-> [alpha |-> -3, market_beta |-> 12, smb_beta |-> 10, hml_beta |-> 11,
                risk_free |-> 30, noise |-> 30],
     lab3  |-> [alpha |-> 10, market_beta |-> 8,  smb_beta |-> -7, hml_beta |-> -12,
                risk_free |-> 10, noise |-> 50]]

\* C5: when the user's last parameter action is a preset (Reset Defaults,
\* Lab 1, Lab 2, Lab 3), all six parameters hold exactly that preset's row of
\* the table, whatever they held before.
C5_PresetReplacesAll ==
    \A e \in DOMAIN PresetTable : event = e => session = PresetTable[e]

C5_Witness ==
    /\ event = "lab2"
    /\ pc = "idle"
    /\ last.valid
    /\ last.params.beta_mkt = Sliders.market_beta.max
    /\ session = PresetTable.lab2

\* the case of C6: three observations, or a (non-empty) design not of full
\* column rank
C6_Case ==
    /\ pc = "est_done"
    /\ Len(factors) >= 1
    /\ (Len(factors) = 3 \/ DesignRank(factors) < 4)

\* C6 as stated: run_regression on N = 3 observations, or on a design that is
\* not of full column rank, ends in a SingularDesign error and returns no result.
C6_SingularDesign == C6_Case => (err = "SingularDesign" /\ model = NoModel)

\* C6 amended: in that case (N >= 1) run_regression raises nothing and returns a
\* result: the least-squares fit by pseudo-inverse (residuals orthogonal to
\* every column of the design) over all the observations, with a reported
\* rank below 4.
C6_ReturnsPinvFit ==
    C6_Case =>
        /\ err = "none"
        /\ model.nobs = Len(factors)
        /\ model.rank < 4
        /\ Len(model.params) = Len(model.names)
        /\ LET X == add_constant(factors)
           IN  \A j \in 1..Len(X.names) :
                 RatSum([i \in 1..Len(factors) |->
                           RatMul(RatInt(X.rows[i][j]),
                                  RatSub(RatInt(stock_returns[i] - session.risk_free),
                                         model.fittedvalues[i]))]) = RatInt(0)

C6_Witness ==
    /\ pc = "est_done"
    /\ Len(factors) = 3
    /\ err = "none"
    /\ model.rank = 3
    /\ params.noise > 0

\* C7 as stated: generate_ff_data with a period count that is zero or negative
\* fails with an error and returns no FactorSeries.
C7_NonPositiveFails ==
    (pc = "generated" /\ months_arg <= 0) =>
        (err # "none" /\ ~gen_log[months_arg].called)

\* C7 amended: generate_ff_data with a negative period count fails with a
\* ValueError and returns no FactorSeries; with zero it raises nothing and
\* returns an empty FactorSeries.
C7_NegativeFailsZeroEmpty ==
    pc = "generated" =>
        /\ months_arg < 0 => (err = "ValueError" /\ ~gen_log[months_arg].called)
        /\ months_arg = 0 => (/\ err = "none"
                              /\ factors = NoFactors
                              /\ gen_log[0] = [called |-> TRUE, factors |-> NoFactors])

C7_Witness ==
    /\ pc = "generated"
    /\ months_arg < 0
    /\ err = "ValueError"
    /\ gen_log[0].called
    /\ Len(factors) > 0

\* C8: in every reachable state each of the six parameters lies within the
\* range of its slider.
C8_InSliderRange ==
    \A k \in Keys : Sliders[k].min <= session[k] /\ session[k] <= Sliders[k].max

\* state part of C9
C9_State ==
    /\ trace = SubSeq(Pipeline, 1, Len(trace))
    /\ Len(trace) = CASE pc = "generate" -> 0
                      [] pc = "simulate" -> 1
                      [] pc = "regress"  -> 2
                      [] pc = "idle"     -> 3
    /\ pc = "idle" =>
          /\ factors = generate_ff_data(months_arg, rng).factors
          /\ params = ParamsOf(session)
          /\ stock_returns =
                fama_french_model(params, factors,
                                  [seed |-> 42, pos |-> 3 * months_arg]).returns
          /\ model = run_regression(stock_returns, factors, session.risk_free)

\* step part of C9
C9_Step ==
    /\ session' # session => (pc = "idle" /\ pc' = "generate" /\ trace' = <<>>)
    /\ pc # "idle" =>
          /\ session' = session
          /\ trace' = SubSeq(Pipeline, 1, Len(trace) + 1)
    /\ pc = "idle" => (pc' = "generate" /\ trace' = <<>>)

\* C9: every parameter change starts one evaluation, which runs the factor
\* generator, then the return simulator on those factors and a snapshot of the
\* parameters, then the estimator on those returns, those factors and the
\* current risk-free rate; a change happens only when no evaluation is
\* running, and an evaluation leaves the six parameters unchanged.
C9_OneOrderedEvaluation == [](C9_State) /\ [][C9_Step]_vars

C9_Witness ==
    /\ pc = "idle"
    /\ event = "slider"
    /\ last.valid
    /\ session.risk_free = Sliders.risk_free.max
    /\ Len(model.params) = 4

\* C10: generate_ff_data leaves the process-wide generator reseeded with 42
\* and advanced by 3*months draws, whatever its state before the call; so the
\* noise draws of every pipeline run start from the same generator state.
C10_GeneratorStateAfterFactors ==
    pc = "simulate" => rng = [seed |-> 42, pos |-> 3 * months_arg]

C10_Witness ==
    /\ pc = "simulate"
    /\ last.valid
    /\ event = "lab3"
    /\ Len(factors) = months_arg

=============================================================================
